---- MODULE Spec2Model ----
(***************************************************************************)
(* KBOB-EPDx, src/main.py: main reads a csv file row by row, from_dict     *)
(* maps each row to an EPD record and parse_row writes it to               *)
(* <out>/<id>.json.                                                        *)
(*                                                                         *)
(* Conventions of the model                                                *)
(*  - a Python str in a numeric column is a sequence of characters, each   *)
(*    character a one-element TLA+ string; "sup2" stands for the single    *)
(*    character U+00B2 (superscript two);                                  *)
(*  - a Python str in any other column is a TLA+ string;                   *)
(*  - an optional value (Python None or a value) is a sequence of length   *)
(*    0 (None) or 1 (the value);                                           *)
(*  - a call that may raise returns Ok(v) or Raise(kind);                  *)
(*  - a float is the exact rational [num, den] in lowest terms.            *)
(***************************************************************************)
EXTENDS Integers, Sequences, FiniteSets, TLC

VARIABLES
    input,      \* the rows csv.DictReader yields, in file order
    idx,        \* 1-based index of the row the for loop of main is at
    pc,         \* "read" | "write" | "done" | "aborted"
    epd,        \* the record from_dict returned for row idx (None before)
    error,      \* the uncaught exception that ended the process (None if none)
    files,      \* the output directory: file name -> file content
    generated,  \* every identifier uuid.uuid4() has returned so far
    prior,      \* the output directory as main found it
    log         \* history: the mapping and write events of this run, in order

vars == <<input, idx, pc, epd, error, files, generated, prior, log>>

----------------------------------------------------------------------------
(* Bounds *)

MaxRows == 2    \* rows of an input file
MaxLen == 3     \* characters of an enumerated numeric field

----------------------------------------------------------------------------
(* Python values *)

None == <<>>
Some(v) == <<v>>
Ok(v) == [ok |-> v]
Raise(kind) == [raise |-> kind]
IsRaise(x) == "raise" \in DOMAIN x

\* dict.get(key): the value, or None when the key is absent.  A short csv
\* line leaves the key present with value None, which reads the same.
Get(row, col) == IF col \in DOMAIN row THEN Some(row[col]) ELSE None

\* truthiness of an optional str: None and the empty str are falsy
Truthy(o, empty) == o # None /\ o[1] # empty

\* str(x) as an f-string formats it
Str(o) == IF o = None THEN "None" ELSE o[1]

----------------------------------------------------------------------------
(* Exact arithmetic for the floats the model meets *)

RECURSIVE GCD(_, _)
GCD(a, b) == IF b = 0 THEN a ELSE GCD(b, a % b)

Abs(n) == IF n < 0 THEN -n ELSE n

Rat(n, d) ==
    LET g == GCD(Abs(n), Abs(d))
        s == IF d < 0 THEN -1 ELSE 1
    IN  [num |-> (s * n) \div g, den |-> (s * d) \div g]

RatMul(v, f) == Rat(v.num * f, v.den)
RatDiv(v, f) == Rat(v.num, v.den * f)

RECURSIVE Pow10(_)
Pow10(k) == IF k = 0 THEN 1 ELSE 10 * Pow10(k - 1)

----------------------------------------------------------------------------
(* str methods and float() *)

AsciiDigits == {"0", "1", "2", "3", "4", "5", "6", "7", "8", "9"}

DigitVal(c) ==
    CASE c = "0" -> 0 [] c = "1" -> 1 [] c = "2" -> 2 [] c = "3" -> 3
      [] c = "4" -> 4 [] c = "5" -> 5 [] c = "6" -> 6 [] c = "7" -> 7
      [] c = "8" -> 8 [] c = "9" -> 9

\* str.isdigit() is true of a character whose Unicode Numeric_Type is Digit
\* or Decimal: the ASCII digits and, among others, U+00B2.
IsDigitChar(c) == c \in AsciiDigits \cup {"sup2"}

\* s.isdigit(): every character is a digit and there is at least one
isdigit(s) == Len(s) > 0 /\ \A i \in 1..Len(s) : IsDigitChar(s[i])

\* s.replace('.', '', 1): s without its first '.'
RECURSIVE replace_first_dot(_)
replace_first_dot(s) ==
    IF s = <<>> THEN <<>>
    ELSE IF Head(s) = "." THEN Tail(s)
    ELSE <<Head(s)>> \o replace_first_dot(Tail(s))

RECURSIVE DigitsValue(_)
DigitsValue(s) ==
    IF s = <<>> THEN 0
    ELSE 10 * DigitsValue(SubSeq(s, 1, Len(s) - 1)) + DigitVal(s[Len(s)])

DotCount(s) == Cardinality({i \in 1..Len(s) : s[i] = "."})
DotPos(s) == CHOOSE i \in 1..Len(s) : s[i] = "."

\* float(s) for a str s over the characters the model uses (no whitespace,
\* exponent, underscore, "inf" or "nan" can be spelled with them): an
\* optional sign, then ASCII digits with at most one '.', at least one digit.
\* Anything else raises ValueError.
float(s) ==
    LET neg  == Len(s) > 0 /\ s[1] = "-"
        pos  == Len(s) > 0 /\ s[1] = "+"
        body == IF neg \/ pos THEN Tail(s) ELSE s
        bare == replace_first_dot(body)
        frac == IF DotCount(body) = 0 THEN 0 ELSE Len(body) - DotPos(body)
        good == /\ DotCount(body) <= 1
                /\ Len(bare) > 0
                /\ \A i \in 1..Len(bare) : bare[i] \in AsciiDigits
    IN  IF good
        THEN Ok(Rat((IF neg THEN -1 ELSE 1) * DigitsValue(bare), Pow10(frac)))
        ELSE Raise("ValueError")

----------------------------------------------------------------------------
(* class EPDx *)

declared_factor == 1

\* the members of epdx's Unit enumeration that convert_unit returns
Units == {"PCS", "M", "M2", "M3", "KG", "L", "UNKNOWN"}

\* variant: a table lookup that raises on a code it does not hold
convert_unit_strict(unit) ==
    IF unit = Some("STK") THEN Ok("PCS")
    ELSE IF unit = Some("m") THEN Ok("M")
    ELSE IF unit = Some("m2") THEN Ok("M2")
    ELSE IF unit = Some("m3") THEN Ok("M3")
    ELSE IF unit = Some("kg") THEN Ok("KG")
    ELSE IF unit = Some("l") THEN Ok("L")
    ELSE Raise("KeyError")

convert_unit(unit) ==
    IF unit = Some("STK") THEN Ok("PCS")
    ELSE IF unit = Some("m") THEN Ok("M")
    ELSE IF unit = Some("m2") THEN Ok("M2")
    ELSE IF unit = Some("m3") THEN Ok("M3")
    ELSE IF unit = Some("kg") THEN Ok("KG")
    ELSE IF unit = Some("l") THEN Ok("L")
    ELSE Ok("UNKNOWN")

\* variant: the truth test applied to the parsed number, so that 0 is absent
convert_gwp_falsy_zero(gwp, factor) ==
    IF Truthy(gwp, <<>>) /\ gwp[1] \notin {<<"-">>, <<>>}
    THEN LET f == float(gwp[1])
         IN  IF IsRaise(f) \/ f.ok.num = 0 THEN Ok(None)
             ELSE Ok(Some(RatDiv(f.ok, factor)))
    ELSE Ok(None)

\* variant: no try/except around float
convert_gwp_uncaught(gwp, factor) ==
    IF Truthy(gwp, <<>>) /\ gwp[1] \notin {<<"-">>, <<>>}
    THEN LET f == float(gwp[1])
         IN  IF IsRaise(f) THEN f ELSE Ok(Some(RatDiv(f.ok, factor)))
    ELSE Ok(None)

\* float(x) / declared_factor if x and x not in ["-", ""] else None, with
\* ValueError caught and turned into None
convert_gwp(gwp, factor) ==
    IF Truthy(gwp, <<>>) /\ gwp[1] \notin {<<"-">>, <<>>}
    THEN LET f == float(gwp[1])
         IN  IF IsRaise(f) THEN Ok(None) ELSE Ok(Some(RatDiv(f.ok, factor)))
    ELSE Ok(None)

convert_pert(pert, factor) ==
    IF Truthy(pert, <<>>) /\ pert[1] \notin {<<"-">>, <<>>}
    THEN LET f == float(pert[1])
         IN  IF IsRaise(f) THEN Ok(None) ELSE Ok(Some(RatDiv(f.ok, factor)))
    ELSE Ok(None)

convert_penre(penre, factor) ==
    IF Truthy(penre, <<>>) /\ penre[1] \notin {<<"-">>, <<>>}
    THEN LET f == float(penre[1])
         IN  IF IsRaise(f) THEN Ok(None) ELSE Ok(Some(RatDiv(f.ok, factor)))
    ELSE Ok(None)

convert_pere(pere, factor) ==
    IF Truthy(pere, <<>>) /\ pere[1] \notin {<<"-">>, <<>>}
    THEN LET f == float(pere[1])
         IN  IF IsRaise(f) THEN Ok(None) ELSE Ok(Some(RatDiv(f.ok, factor)))
    ELSE Ok(None)

\* variant: a missing Dichte/Masse column takes the default conversion
conversion_value_lenient(dichte_masse) ==
    IF dichte_masse # None
       /\ isdigit(replace_first_dot(dichte_masse[1])) /\ dichte_masse[1] # <<"-">>
    THEN LET f == float(dichte_masse[1])
         IN  IF IsRaise(f) THEN f
             ELSE Ok([to |-> "KG", value |-> RatMul(f.ok, declared_factor), error |-> None])
    ELSE Ok([to |-> "KG", value |-> Rat(0, 1), error |-> Some("Not per kg")])

\* lines 52-59: the kilogram conversion from the Dichte/Masse column.
\* None has no .replace (AttributeError); float may reject what the isdigit
\* guard let through (ValueError).
conversion_value(dichte_masse) ==
    IF dichte_masse = None THEN Raise("AttributeError")
    ELSE IF isdigit(replace_first_dot(dichte_masse[1])) /\ dichte_masse[1] # <<"-">>
    THEN LET f == float(dichte_masse[1])
         IN  IF IsRaise(f) THEN f
             ELSE Ok([to |-> "KG", value |-> RatMul(f.ok, declared_factor),
                      error |-> None])
    ELSE Ok([to |-> "KG", value |-> Rat(0, 1), error |-> Some("Not per kg")])

\* the first exception among the results of calls made in this order
RECURSIVE FirstRaise(_)
FirstRaise(rs) ==
    IF rs = <<>> THEN None
    ELSE IF IsRaise(Head(rs)) THEN Some(Head(rs))
    ELSE FirstRaise(Tail(rs))

\* the four indicator tables, as the dict literals of from_dict
penre_table(row) ==
    LET a == convert_penre(Get(row, "PE nicht erneuerbar, Herstellung total"), declared_factor)
        c == convert_penre(Get(row, "PE nicht erneuerbar, Entsorgung"), declared_factor)
        e == FirstRaise(<<a, c>>)
    IN  IF e # None THEN e[1]
        ELSE Ok([a1a3 |-> a.ok, a4 |-> None, a5 |-> None, b1 |-> None,
                 b2 |-> None, b3 |-> None, b4 |-> None, b5 |-> None,
                 b6 |-> None, b7 |-> None, c1 |-> c.ok, c2 |-> None,
                 c3 |-> None, c4 |-> None, d |-> None])

pere_table(row) ==
    LET a == convert_pere(Get(row, "PE erneuerbar, Herstellung total"), declared_factor)
        c == convert_penre(Get(row, "PE erneuerbar, Entsorgung"), declared_factor)
        e == FirstRaise(<<a, c>>)
    IN  IF e # None THEN e[1]
        ELSE Ok([a1a3 |-> a.ok, a4 |-> None, a5 |-> None, b1 |-> None,
                 b2 |-> None, b3 |-> None, b4 |-> None, b5 |-> None,
                 b6 |-> None, b7 |-> None, c1 |-> c.ok, c2 |-> None,
                 c3 |-> None, c4 |-> None, d |-> None])

\* variant: the last key of the literal left out
pert_table_short(row) ==
    LET a == convert_pert(Get(row, "PE gesamt, Total"), declared_factor)
    IN  IF IsRaise(a) THEN a
        ELSE Ok([a1a3 |-> a.ok, a4 |-> None, a5 |-> None, b1 |-> None,
                 b2 |-> None, b3 |-> None, b4 |-> None, b5 |-> None,
                 b6 |-> None, b7 |-> None, c1 |-> None, c2 |-> None,
                 c3 |-> None, c4 |-> None])

pert_table(row) ==
    LET a == convert_pert(Get(row, "PE gesamt, Total"), declared_factor)
    IN  IF IsRaise(a) THEN a
        ELSE Ok([a1a3 |-> a.ok, a4 |-> None, a5 |-> None, b1 |-> None,
                 b2 |-> None, b3 |-> None, b4 |-> None, b5 |-> None,
                 b6 |-> None, b7 |-> None, c1 |-> None, c2 |-> None,
                 c3 |-> None, c4 |-> None, d |-> None])

\* variant: c1 filled from the column of a1a3
gwp_table_copied(row) ==
    LET a == convert_gwp(Get(row, "GWP Herstellung"), declared_factor)
        c == convert_penre(Get(row, "GWP Herstellung"), declared_factor)
        e == FirstRaise(<<a, c>>)
    IN  IF e # None THEN e[1]
        ELSE Ok([a1a3 |-> a.ok, a4 |-> None, a5 |-> None, b1 |-> None,
                 b2 |-> None, b3 |-> None, b4 |-> None, b5 |-> None,
                 b6 |-> None, b7 |-> None, c1 |-> c.ok, c2 |-> None,
                 c3 |-> None, c4 |-> None, d |-> None])

gwp_table(row) ==
    LET a == convert_gwp(Get(row, "GWP Herstellung"), declared_factor)
        c == convert_penre(Get(row, "GWP Entsorgung"), declared_factor)
        e == FirstRaise(<<a, c>>)
    IN  IF e # None THEN e[1]
        ELSE Ok([a1a3 |-> a.ok, a4 |-> None, a5 |-> None, b1 |-> None,
                 b2 |-> None, b3 |-> None, b4 |-> None, b5 |-> None,
                 b6 |-> None, b7 |-> None, c1 |-> c.ok, c2 |-> None,
                 c3 |-> None, c4 |-> None, d |-> None])

\* meta_data: the source columns passed through under English keys
meta_data(row) ==
    [ID_Nummer |-> Get(row, "ID-Nummer"),
     Material_Group |-> Get(row, "Gruppe"),
     UBP_Total |-> Get(row, "UBP Total"),
     UBP_Manufacturing |-> Get(row, "UBP Herstellung"),
     UBP_Disposal |-> Get(row, "UBP Entsorgung"),
     Total_PE |-> Get(row, "PE gesamt, Total"),
     Total_Manufacturing_PE |-> Get(row, "PE gesamt, Herstellung total"),
     Energy_Utilized_Manufacturing_PE |->
         Get(row, "PE gesamt, Herstellung energetisch genutzt"),
     Material_Utilized_Manufacturing_PE |->
         Get(row, "PE gesamt, Herstellung stofflich genutzt"),
     Disposal_PE |-> Get(row, "PE gesamt, Entsorgung"),
     Total_Renewable_PE |-> Get(row, "PE erneuerbar, Total"),
     Total_Renewable_Manufacturing_PE |->
         Get(row, "PE erneuerbar, Herstellung total"),
     Energy_Utilized_Renewable_Manufacturing_PE |->
         Get(row, "PE erneuerbar, Herstellung energetisch genutzt"),
     Material_Utilized_Renewable_Manufacturing_PE |->
         Get(row, "PE erneuerbar, Herstellung stofflich genutzt"),
     Renewable_Disposal_PE |-> Get(row, "PE erneuerbar, Entsorgung"),
     Total_Non_renewable_PE |-> Get(row, "PE nicht erneuerbar, Total"),
     Total_Non_renewable_Manufacturing_PE |->
         Get(row, "PE nicht erneuerbar, Herstellung total"),
     Energy_Utilized_Non_renewable_Manufacturing_PE |->
         Get(row, "PE nicht erneuerbar, Herstellung energetisch genutzt"),
     Material_Utilized_Non_renewable_Manufacturing_PE |->
         Get(row, "PE nicht erneuerbar, Herstellung stofflich genutzt"),
     Non_renewable_Disposal_PE |-> Get(row, "PE nicht erneuerbar, Entsorgung"),
     GWP_Total |-> Get(row, "GWP Total"),
     GWP_Disposal |-> Get(row, "GWP Entsorgung"),
     GWP_Manufacturing |-> Get(row, "GWP Herstellung"),
     Biogenic_Carbon |-> Get(row, "Biogener Kohlenstoff")]

\* variant: "is not None" in place of the truth test, so "" is kept
record_id_present(row, u) ==
    IF Get(row, "UUID-Nummer") # None THEN row["UUID-Nummer"] ELSE u

\* id=KBOBeco_object.get("UUID-Nummer") or str(uuid.uuid4()); u is what
\* uuid4 returns if it is called
record_id(row, u) ==
    IF Truthy(Get(row, "UUID-Nummer"), "") THEN row["UUID-Nummer"] ELSE u

\* from_dict calls uuid4 when it gets as far as line 63 and the column is
\* None or empty
calls_uuid4(row) ==
    /\ ~IsRaise(conversion_value(Get(row, "Dichte/Masse")))
    /\ ~Truthy(Get(row, "UUID-Nummer"), "")

\* EPDx.from_dict: Ok(record) or the first exception raised on the way.
\* The constructor of epdx's EPD and importlib.metadata.version are taken
\* to accept what from_dict hands them; every row of the model carries the
\* BAUMATERIALIEN column the record's name comes from.
from_dict(row, u) ==
    LET conv  == conversion_value(Get(row, "Dichte/Masse"))
        unit  == convert_unit(Get(row, "Bezug"))
        penre == penre_table(row)
        pere  == pere_table(row)
        pert  == pert_table(row)
        gwp   == gwp_table(row)
        e     == FirstRaise(<<conv, unit, penre, pere, pert, gwp>>)
    IN  IF e # None THEN e[1]
        ELSE Ok([id |-> record_id(row, u),
                 format_version |-> "epdx",
                 name |-> Get(row, "BAUMATERIALIEN"),
                 version |-> "V4 - 2024",
                 declared_unit |-> unit.ok,
                 valid_until |-> <<2025, 12, 22>>,
                 published_date |-> <<2024, 11, 25>>,
                 source |-> "KBOB",
                 standard |-> "EN15804A2",
                 subtype |-> "Generic",
                 comment |-> Str(Get(row, "ID-Nummer")) \o "/"
                             \o Str(Get(row, "BAUMATERIALIEN")),
                 meta_data |-> meta_data(row),
                 reference_service_life |-> 60,
                 location |-> "CH",
                 conversions |-> <<conv.ok>>,
                 penre |-> penre.ok,
                 pere |-> pere.ok,
                 pert |-> pert.ok,
                 gwp |-> gwp.ok])

----------------------------------------------------------------------------
(* uuid4, the file system *)

\* The identifiers uuid.uuid4() can return in the model.  uuid4 draws 122
\* random bits; the model takes the library at its contract, an identifier
\* never returned before, in this run or an earlier one.
UuidPool == {"uuid4-" \o ToString(n) : n \in 1..(MaxRows + 1)}
uuid4(gen) == UuidPool \ gen

\* epd.json(): pydantic's serialization of the record; a file's content is
\* the record it serializes, None fields included as null
json(e) == e

\* f"{epd.id}.json"
file_name(e) == e.id \o ".json"

\* variant: exclusive creation, an existing file is left as it is
write_text_keep(fs, name, data) ==
    [n \in DOMAIN fs \cup {name} |-> IF n \in DOMAIN fs THEN fs[n] ELSE data]

\* Path.write_text: creates the file or replaces its content
write_text(fs, name, data) ==
    [n \in DOMAIN fs \cup {name} |-> IF n = name THEN data ELSE fs[n]]

\* variant: the reader advanced twice per iteration
next_row_skip(i) == i + 2

\* the next row of the reader
next_row(i) == i + 1

----------------------------------------------------------------------------
(* Input files *)

NoColumns == [c \in {} |-> ""]

\* a row of the KBOB list with every column the claims turn on
BaseRow ==
    ("Bezug" :> "kg") @@ ("BAUMATERIALIEN" :> "Beton")
    @@ ("ID-Nummer" :> "01.002") @@ ("UUID-Nummer" :> "abc-123")
    @@ ("Dichte/Masse" :> <<"1">>) @@ ("GWP Herstellung" :> <<"1", "0", "0">>)

\* row with column col set to value v (an optional value: None removes it)
With(row, col, v) ==
    IF v = None
    THEN [c \in DOMAIN row \ {col} |-> row[c]]
    ELSE (col :> v[1]) @@ row

\* rows of the batches: identifier given, empty or missing; Dichte/Masse a
\* number, U+00B2 or missing; the indicator a number or "n/a"
BatchRows ==
    {With(With(With(BaseRow, "UUID-Nummer", u), "Dichte/Masse", d),
          "GWP Herstellung", g) :
        u \in {Some("abc-123"), Some(""), None},
        d \in {Some(<<"1", ".", "5">>), Some(<<"sup2">>), None},
        g \in {Some(<<"1", "0", "0">>), Some(<<"n", "/", "a">>)}}

Alphabet == {"0", "1", ".", "-", "n", "sup2"}
Strings == UNION {[1..n -> Alphabet] : n \in 0..MaxLen}

NumericColumns ==
    {"Dichte/Masse", "GWP Herstellung", "GWP Entsorgung", "PE gesamt, Total",
     "PE erneuerbar, Herstellung total", "PE erneuerbar, Entsorgung",
     "PE nicht erneuerbar, Herstellung total",
     "PE nicht erneuerbar, Entsorgung"}

UnitCodes == {"STK", "m", "m2", "m3", "kg", "l", "KG", "Stk", "M2", "t", ""}

\* the row of the end-to-end example: these four columns and no other
ExampleRow ==
    ("Bezug" :> "KG") @@ ("BAUMATERIALIEN" :> "Beton")
    @@ ("Treibhausgasemissionen (kg CO2-eq)" :> <<"1", "0", "0">>)
    @@ ("UUID-Nummer" :> "abc-123")

\* the same example with the unit code and the indicator column this source
\* reads, and the Dichte/Masse column it parses unconditionally
SourceExampleRow ==
    ("Bezug" :> "kg") @@ ("BAUMATERIALIEN" :> "Beton")
    @@ ("GWP Herstellung" :> <<"1", "0", "0">>)
    @@ ("UUID-Nummer" :> "abc-123") @@ ("Dichte/Masse" :> <<"1">>)

\* rows that vary one column over every value of its kind
SingleRows ==
    {With(BaseRow, c, v) : c \in NumericColumns,
                           v \in {Some(s) : s \in Strings} \cup {None}}
    \cup {With(BaseRow, "Bezug", v) : v \in {Some(c) : c \in UnitCodes} \cup {None}}
    \cup {ExampleRow, With(ExampleRow, "Dichte/Masse", Some(<<"1">>)),
          SourceExampleRow}

Inputs ==
    UNION {[1..n -> BatchRows] : n \in 0..MaxRows}
    \cup {<<r>> : r \in SingleRows}

\* what an earlier run can have left: nothing, the file of a row with a
\* given identifier, or the file of a row with a generated one
StaleRecord(i) == from_dict(With(BaseRow, "BAUMATERIALIEN", Some("Holz")), i).ok

PriorRuns ==
    {[dir |-> NoColumns, gen |-> {}],
     [dir |-> ("abc-123.json" :> json(StaleRecord("abc-123"))), gen |-> {}],
     [dir |-> ("uuid4-1.json" :> json(StaleRecord("uuid4-1"))), gen |-> {"uuid4-1"}]}

----------------------------------------------------------------------------
(* main *)

Init ==
    /\ input \in Inputs
    /\ \E p \in PriorRuns :
         /\ prior = p.dir
         /\ files = p.dir
         /\ generated = p.gen
    /\ idx = 1
    /\ pc = "read"
    /\ epd = None
    /\ error = None
    /\ log = <<>>

\* parse_row, line 254: EPDx.from_dict(row) for the row the loop is at; an
\* exception is caught nowhere and ends the process
FromDict ==
    /\ pc = "read"
    /\ idx <= Len(input)
    /\ \E u \in (IF calls_uuid4(input[idx]) THEN uuid4(generated) ELSE {""}) :
         LET r == from_dict(input[idx], u)
         IN  /\ generated' = IF calls_uuid4(input[idx])
                             THEN generated \cup {u} ELSE generated
             /\ IF IsRaise(r)
                THEN /\ pc' = "aborted"
                     /\ error' = Some(r.raise)
                     /\ epd' = None
                     /\ log' = Append(log, [op |-> "raise", row |-> idx])
                ELSE /\ pc' = "write"
                     /\ error' = error
                     /\ epd' = Some(r.ok)
                     /\ log' = Append(log, [op |-> "map", row |-> idx,
                                            epd |-> r.ok])
    /\ UNCHANGED <<input, idx, files, prior>>

\* parse_row, line 255: write the record to <id>.json, then the loop of main
\* moves to the next row
WriteText ==
    /\ pc = "write"
    /\ files' = write_text(files, file_name(epd[1]), json(epd[1]))
    /\ log' = Append(log, [op |-> "write", row |-> idx,
                           name |-> file_name(epd[1])])
    /\ idx' = next_row(idx)
    /\ pc' = "read"
    /\ epd' = None
    /\ UNCHANGED <<input, error, generated, prior>>

\* the reader is exhausted: main returns
Finish ==
    /\ pc = "read"
    /\ idx > Len(input)
    /\ pc' = "done"
    /\ UNCHANGED <<input, idx, epd, error, files, generated, prior, log>>

Next == FromDict \/ WriteText \/ Finish

Spec == Init /\ [][Next]_vars

----------------------------------------------------------------------------
(* Vocabulary of the properties *)

Stages == {"a1a3", "a4", "a5", "b1", "b2", "b3", "b4", "b5", "b6", "b7",
           "c1", "c2", "c3", "c4", "d"}

Tables == {"gwp", "penre", "pere", "pert"}

\* which source column feeds which cell of which indicator table
IndicatorFields ==
    {<<"gwp", "a1a3", "GWP Herstellung">>,
     <<"gwp", "c1", "GWP Entsorgung">>,
     <<"penre", "a1a3", "PE nicht erneuerbar, Herstellung total">>,
     <<"penre", "c1", "PE nicht erneuerbar, Entsorgung">>,
     <<"pere", "a1a3", "PE erneuerbar, Herstellung total">>,
     <<"pere", "c1", "PE erneuerbar, Entsorgung">>,
     <<"pert", "a1a3", "PE gesamt, Total">>}

\* the row the loop is at has been mapped and not yet written
Mapped == pc = "write"
Row == input[idx]

\* rows whose write has completed
Written == Len(log) \div 2
MapEvent(i) == log[2 * i - 1]
WriteEvent(i) == log[2 * i]

Sentinel(f) == f \in {Some(<<"-">>), Some(<<>>)}
Parseable(f) == f # None /\ ~IsRaise(float(f[1]))
Malformed(f) == f # None /\ ~Sentinel(f) /\ IsRaise(float(f[1]))

\* the Dichte/Masse column makes from_dict raise: it is missing, or it
\* passes the digit guard and float rejects it
DichteMissing(row) == "Dichte/Masse" \notin DOMAIN row
DichteRejected(row) ==
    /\ ~DichteMissing(row)
    /\ isdigit(replace_first_dot(row["Dichte/Masse"]))
    /\ IsRaise(float(row["Dichte/Masse"]))

\* the directory after the events of a log, last write to a name winning
RECURSIVE Replay(_, _, _)
Replay(fs, events, content) ==
    IF events = <<>> THEN fs
    ELSE LET e == Head(events)
         IN  IF e.op = "map" THEN Replay(fs, Tail(events), Some(e.epd))
             ELSE IF e.op = "write"
             THEN Replay([n \in DOMAIN fs \cup {e.name} |->
                             IF n = e.name THEN content[1] ELSE fs[n]],
                         Tail(events), None)
             ELSE Replay(fs, Tail(events), None)

----------------------------------------------------------------------------
(* C1 *)

DocumentedUnit(code) ==
    CASE code = Some("STK") -> "PCS"
      [] code = Some("m")   -> "M"
      [] code = Some("m2")  -> "M2"
      [] code = Some("m3")  -> "M3"
      [] code = Some("kg")  -> "KG"
      [] code = Some("l")   -> "L"
      [] OTHER              -> "UNKNOWN"

\* C1: the declared unit of every mapped row is the table's value for the
\* row's Bezug code, "unknown" for every other string, the empty string and
\* a missing column; and the unit code never makes the mapper raise: when
\* the process aborts, the Dichte/Masse column of the row is the cause.
C1_UnitByTable ==
    /\ Mapped => /\ epd[1].declared_unit = DocumentedUnit(Get(Row, "Bezug"))
                 /\ epd[1].declared_unit \in Units
    /\ pc = "aborted" => DichteMissing(Row) \/ DichteRejected(Row)

C1_Witness ==
    /\ Mapped
    /\ Get(Row, "Bezug") = None
    /\ epd[1].declared_unit = "UNKNOWN"

----------------------------------------------------------------------------
(* C2 *)

\* C2: in every mapped row, an indicator field equal to "-" or "" (or
\* missing) gives an absent value, None and not zero, and a field float
\* accepts gives float(field) / declared_factor.
C2_IndicatorValue ==
    Mapped =>
        \A t \in IndicatorFields :
            LET f == Get(Row, t[3])
                v == epd[1][t[1]][t[2]]
            IN  /\ (f = None \/ Sentinel(f)) => v = None
                /\ Parseable(f) =>
                       v = Some(RatDiv(float(f[1]).ok, declared_factor))

C2_Witness ==
    /\ Mapped
    /\ Get(Row, "GWP Herstellung") = Some(<<"0", ".", "1">>)
    /\ epd[1].gwp.a1a3 = Some([num |-> 1, den |-> 10])

----------------------------------------------------------------------------
(* C5 *)

\* C5: each of the four indicator tables of every mapped row has exactly
\* the fifteen life-cycle-stage keys, whatever columns the row carries.
C5_FixedKeys ==
    Mapped => \A t \in Tables : DOMAIN epd[1][t] = Stages

C5_Witness ==
    /\ Mapped
    /\ DOMAIN Row \cap NumericColumns = {"Dichte/Masse"}
    /\ DOMAIN epd[1].pert = Stages

----------------------------------------------------------------------------
(* C3 *)

Ended == pc \in {"done", "aborted"}

\* what the example says of the output directory
ExampleOutput ==
    /\ pc = "done"
    /\ error = None
    /\ "abc-123.json" \in DOMAIN files
    /\ files["abc-123.json"].id = "abc-123"
    /\ files["abc-123.json"].declared_unit = "KG"
    /\ files["abc-123.json"].gwp.a1a3 = Some([num |-> 100, den |-> 1])
    /\ \A k \in Stages \ {"a1a3"} : files["abc-123.json"].gwp[k] = None

\* C3 as stated: the run over the row with the four columns Bezug="KG",
\* BAUMATERIALIEN, "Treibhausgasemissionen (kg CO2-eq)"="100" and
\* UUID-Nummer="abc-123" ends without error, with abc-123.json holding
\* unit kilogram, a1a3 = 100.0 and every other gwp stage absent.
C3_Original == (input = <<ExampleRow>> /\ Ended) => ExampleOutput

\* C3 as amended: the same holds of the row that spells the unit code "kg",
\* carries the value in the column "GWP Herstellung" and has a numeric
\* Dichte/Masse column.
C3_SourceExample == (input = <<SourceExampleRow>> /\ Ended) => ExampleOutput

C3_Witness ==
    /\ input = <<SourceExampleRow>>
    /\ pc = "done"
    /\ files["abc-123.json"].gwp.a1a3 = Some([num |-> 100, den |-> 1])
    /\ files["abc-123.json"].declared_unit = "KG"

----------------------------------------------------------------------------
(* C4 *)

GivenId(row) == "UUID-Nummer" \in DOMAIN row /\ row["UUID-Nummer"] # ""

\* C4: for every row written, the file name is the record identifier plus
\* ".json" and the file is there; a non-empty UUID-Nummer is the
\* identifier; otherwise the identifier is non-empty, is the identifier of
\* no other row of the run that lacks one, and names no file an earlier run
\* left.
C4_Identifier ==
    \A i \in 1..Written :
        LET row == input[i]
            id  == MapEvent(i).epd.id
        IN  /\ WriteEvent(i).name = id \o ".json"
            /\ WriteEvent(i).name \in DOMAIN files
            /\ files[WriteEvent(i).name].id = id
            /\ GivenId(row) => id = row["UUID-Nummer"]
            /\ ~GivenId(row) =>
                   /\ id # ""
                   /\ id \o ".json" \notin DOMAIN prior
                   /\ \A j \in 1..Written :
                          (j # i /\ ~GivenId(input[j])) => MapEvent(j).epd.id # id

C4_Witness ==
    /\ pc = "done"
    /\ Len(input) = 2
    /\ "UUID-Nummer" \notin DOMAIN input[1]
    /\ Get(input[2], "UUID-Nummer") = Some("")
    /\ "uuid4-1.json" \in DOMAIN prior
    /\ Written = 2

----------------------------------------------------------------------------
(* C6 *)

GuardSound(row) == ~DichteRejected(row)

\* C6 as stated: no exception is raised for a row whose GWP Herstellung
\* holds a non-numeric, non-sentinel string, its a1a3 value is absent, and
\* the run goes on through every remaining row.  (Stated here of the files
\* in which float accepts whatever the Dichte/Masse guard lets through.)
C6_Original ==
    (\A i \in 1..Len(input) : GuardSound(input[i])) =>
        \A i \in 1..Len(input) :
            Malformed(Get(input[i], "GWP Herstellung")) =>
                /\ pc = "aborted" => idx < i
                /\ (Mapped /\ idx = i) => epd[1].gwp.a1a3 = None
                /\ pc = "done" => Written = Len(input)

\* C6 as amended: a malformed indicator field is never what stops the
\* batch.  A mapped row has the value of every malformed indicator field
\* absent; from_dict raises only on account of the row's Dichte/Masse
\* column (missing: AttributeError; past the digit guard and rejected by
\* float: ValueError), whatever the indicator fields hold; and a run that
\* meets no such row writes every row of the file.
C6_MalformedIsAbsent ==
    /\ Mapped =>
           \A t \in IndicatorFields :
               Malformed(Get(Row, t[3])) => epd[1][t[1]][t[2]] = None
    /\ pc = "aborted" =>
           \/ DichteMissing(Row) /\ error = Some("AttributeError")
           \/ DichteRejected(Row) /\ error = Some("ValueError")
    /\ (idx <= Len(input) /\ pc \in {"write", "aborted"}) =>
           (pc = "aborted" <=> (DichteMissing(Row) \/ DichteRejected(Row)))
    /\ pc = "done" => Written = Len(input)

C6_Witness ==
    /\ pc = "done"
    /\ Len(input) = 2
    /\ Malformed(Get(input[1], "GWP Herstellung"))
    /\ MapEvent(1).epd.gwp.a1a3 = None
    /\ Written = 2

----------------------------------------------------------------------------
(* C7 *)

\* C7: a row without the Dichte/Masse column is fatal.  The loop never
\* gets past such a row; once from_dict has run on it the process has
\* ended with AttributeError, no write of that row or a later one has
\* happened, and the directory is what the writes of the earlier rows
\* made of the directory main found.
C7_MissingColumnFatal ==
    \A j \in 1..Len(input) :
        DichteMissing(input[j]) =>
            /\ idx <= j
            /\ \A k \in 1..Len(log) : log[k].op = "write" => log[k].row < j
            /\ (idx = j /\ pc # "read") =>
                   /\ pc = "aborted"
                   /\ error = Some("AttributeError")
                   /\ Written = j - 1
                   /\ files = Replay(prior, log, None)

C7_Witness ==
    /\ pc = "aborted"
    /\ idx = 2
    /\ DichteMissing(input[2])
    /\ Written = 1
    /\ WriteEvent(1).name \in DOMAIN files
    /\ files # prior

----------------------------------------------------------------------------
(* C8 *)

\* C8: the events of a run are map 1, write 1, map 2, write 2, ... in file
\* order, an exception being the last event; the loop is at row i exactly
\* when rows 1..i-1 are mapped and written; and each write is the write of
\* the record mapped just before it.
C8_InOrder ==
    /\ \A k \in 1..Len(log) :
           /\ log[k].row = (k + 1) \div 2
           /\ log[k].row \in 1..Len(input)
           /\ k % 2 = 0 => /\ log[k].op = "write"
                           /\ log[k - 1].op = "map"
                           /\ log[k].name = log[k - 1].epd.id \o ".json"
           /\ k % 2 = 1 => log[k].op \in {"map", "raise"}
           /\ log[k].op = "raise" => k = Len(log)
    /\ pc = "read" => Len(log) = 2 * (idx - 1)
    /\ pc = "write" => Len(log) = 2 * idx - 1 /\ log[Len(log)].op = "map"
    /\ pc = "aborted" => Len(log) = 2 * idx - 1 /\ log[Len(log)].op = "raise"
    /\ pc = "done" => Len(log) = 2 * Len(input)

C8_Witness ==
    /\ pc = "done"
    /\ Len(input) = 2
    /\ Len(log) = 4
    /\ log[4].op = "write" /\ log[4].row = 2

----------------------------------------------------------------------------
(* C9 *)

\* the last row of the file whose record has the identifier of row i's
LastWithId(i) ==
    CHOOSE j \in 1..Len(input) :
        /\ MapEvent(j).epd.id = MapEvent(i).epd.id
        /\ \A k \in 1..Len(input) :
               MapEvent(k).epd.id = MapEvent(i).epd.id => k <= j

\* C9: when main has returned, the directory holds, besides what an
\* earlier run left under other names, exactly the files <id>.json of the
\* identifiers of the rows, and each holds the record of the last row of
\* the file with that identifier.
C9_LastWriteWins ==
    pc = "done" =>
        /\ Written = Len(input)
        /\ DOMAIN files =
               DOMAIN prior \cup {MapEvent(i).epd.id \o ".json" : i \in 1..Len(input)}
        /\ \A i \in 1..Len(input) :
               files[MapEvent(i).epd.id \o ".json"] = MapEvent(LastWithId(i)).epd
        /\ \A n \in DOMAIN prior :
               (\A i \in 1..Len(input) : n # MapEvent(i).epd.id \o ".json")
                   => files[n] = prior[n]

C9_Witness ==
    /\ pc = "done"
    /\ Len(input) = 2
    /\ MapEvent(1).epd.id = "abc-123"
    /\ MapEvent(2).epd.id = "abc-123"
    /\ MapEvent(1).epd # MapEvent(2).epd
    /\ files["abc-123.json"] = MapEvent(2).epd
    /\ Cardinality(DOMAIN files) = 1

----------------------------------------------------------------------------
(* C10 *)

\* C10 as stated: for every row with a Dichte/Masse column from_dict raises
\* nothing and returns one conversion to kilogram: float(column) *
\* declared_factor without error if the column passes the guard, the
\* default 0.0 with error "Not per kg" otherwise.
C10_Claim ==
    (idx <= Len(input) /\ pc \in {"write", "aborted"} /\ ~DichteMissing(Row)) =>
        /\ pc = "write"
        /\ Len(epd[1].conversions) = 1
        /\ epd[1].conversions[1].to = "KG"
        /\ LET d == Row["Dichte/Masse"]
           IN  IF isdigit(replace_first_dot(d)) /\ d # <<"-">>
               THEN /\ epd[1].conversions[1].value =
                           RatMul(float(d).ok, declared_factor)
                    /\ epd[1].conversions[1].error = None
               ELSE /\ epd[1].conversions[1].value = [num |-> 0, den |-> 1]
                    /\ epd[1].conversions[1].error = Some("Not per kg")

====
